---- MODULE Spec2Model ----
(***************************************************************************)
(* TRestHitsEvent (src/src/TRestHitsEvent.cxx): an event holding a list of *)
(* hits, with the cylinder / prism volume queries, Sort, Shuffle and the   *)
(* XZ / YZ / XYZ projection buffers.                                       *)
(*                                                                         *)
(* Numbers.  Coordinates, radii and sizes are held as integers that count  *)
(* half millimetres, so the hit (0.5, 0.5, 2) is <<1, 1, 4>>.  A Double_t  *)
(* that a query returns is held exactly, in millimetres, as a record       *)
(* [s, p, q] standing for s * sqrt(p / q), with s in {-1, 0, 1} and p / q  *)
(* in lowest terms: every length the queries compute from such inputs      *)
(* (n / |axis|, sqrt of a rational) has this form, so = on the records is  *)
(* = on the reals.  q = 0 is the non-finite result of a division by zero   *)
(* or of a square root of a negative number.  Rounding is not modelled.    *)
(* The angle theta of a prism is a number k of quarter turns, theta =      *)
(* k * pi / 2, for which cos and sin are exact.                            *)
(***************************************************************************)
EXTENDS Integers, Sequences, FiniteSets, TLC

VARIABLES fHits, fXZHits, fYZHits, fXYZHits, fBounds, fault, call, ret

vars == <<fHits, fXZHits, fYZHits, fXYZHits, fBounds, fault, call, ret>>

\* ------------------------------------------------------------------ bounds
MaxHits == 2
MaxNLoop == 2

\* ----------------------------------------------------------------- numbers
Abs(n) == IF n < 0 THEN -n ELSE n

Sgn(n) == IF n < 0 THEN -1 ELSE IF n = 0 THEN 0 ELSE 1

RECURSIVE GCD(_, _)
GCD(a, b) == IF b = 0 THEN a ELSE GCD(b, a % b)

\* the non-finite Double_t (0/0, sqrt of a negative number)
NaN == [s |-> 0, p |-> 0, q |-> 0]

IsNaN(v) == v.q = 0

\* the Double_t n / sqrt(d2)
Surd(n, d2) ==
    IF d2 <= 0 THEN NaN
    ELSE IF n = 0 THEN [s |-> 0, p |-> 0, q |-> 1]
    ELSE LET g == GCD(n * n, d2)
         IN  [s |-> Sgn(n), p |-> (n * n) \div g, q |-> d2 \div g]

\* the Double_t n / d
Ratio(n, d) == Surd(n * Sgn(d), d * d)

\* TMath::Sqrt of the rational n / d (d > 0)
Sqrt(n, d) ==
    IF d <= 0 \/ n < 0 THEN NaN
    ELSE IF n = 0 THEN [s |-> 0, p |-> 0, q |-> 1]
    ELSE LET g == GCD(n, d) IN [s |-> 1, p |-> n \div g, q |-> d \div g]

\* a < b on Double_t: false when either side is non-finite.  x |-> sgn(x) * x^2
\* is strictly increasing, so the signed squares are compared.
Less(a, b) == /\ ~IsNaN(a)
              /\ ~IsNaN(b)
              /\ a.s * a.p * b.q < b.s * b.p * a.q

Leq(a, b) == /\ ~IsNaN(a)
             /\ ~IsNaN(b)
             /\ a.s * a.p * b.q <= b.s * b.p * a.q

\* std::max / std::min: max(a, b) is (a < b) ? b : a, min(a, b) is (b < a) ? b : a
max(a, b) == IF Less(a, b) THEN b ELSE a

min(a, b) == IF Less(b, a) THEN b ELSE a

MinusOne == Ratio(-1, 1)

\* a length of n half millimetres, in millimetres
MM(n) == Ratio(n, 2)

\* ----------------------------------------------------------------- vectors
\* TVector3 operator-, Dot, Mag2 on triples of half millimetres
Minus(a, b) == <<a[1] - b[1], a[2] - b[2], a[3] - b[3]>>

Dot(a, b) == a[1] * b[1] + a[2] * b[2] + a[3] * b[3]

Mag2(a) == Dot(a, a)

\* TVector3::Mag, in millimetres: sqrt(Mag2) / 2
Mag(a) == Sqrt(Mag2(a), 4)

\* variant of AxisCoord: the division by axis.Mag() left out
AxisCoord_NotNormalised(axis, d) == Ratio(Dot(axis, d), 4)

\* axis.Dot(d) / axis.Mag(), in millimetres: (a.d) / (2 sqrt(a.a)); 0/0 when
\* the axis has length 0
AxisCoord(axis, d) == Surd(Dot(axis, d), 4 * Mag2(axis))

\* axis.Mag() - axis.Dot(d) / axis.Mag(), in millimetres
LengthMinusAxisCoord(axis, d) == Surd(Mag2(axis) - Dot(axis, d), 4 * Mag2(axis))

\* cos and sin of k quarter turns
Cos(k) == CASE k % 4 = 0 -> 1 [] k % 4 = 1 -> 0 [] k % 4 = 2 -> -1 [] OTHER -> 0

Sin(k) == CASE k % 4 = 0 -> 0 [] k % 4 = 1 -> 1 [] k % 4 = 2 -> 0 [] OTHER -> -1

\* ------------------------------------------------------------------- hits
XZ == "XZ"
YZ == "YZ"
XYZ == "XYZ"

GetNumberOfHits(hits) == Len(hits)

GetPosition(hits, n) == <<hits[n].x, hits[n].y, hits[n].z>>

\* TRestHits::isHitNInsideCylinder: 0 <= l <= L and perp^2 <= radius^2, with
\* l = axis.(P - x0) / L; every hit is outside when L = 0
isHitNInsideCylinder(hits, n, x0, x1, radius) ==
    LET axis == Minus(x1, x0)
        d    == Minus(GetPosition(hits, n), x0)
        aa   == Mag2(axis)
        ad   == Dot(axis, d)
    IN  /\ aa > 0
        /\ 0 <= ad
        /\ ad <= aa
        /\ Mag2(d) * aa - ad * ad <= radius * radius * aa

\* the in-plane coordinates of d after the rotation by theta about the axis
\* (TVector3::RotateZ for an axis along z)
LocalU(d, theta) == d[1] * Cos(theta) - d[2] * Sin(theta)

LocalV(d, theta) == d[1] * Sin(theta) + d[2] * Cos(theta)

\* TRestHits::isHitNInsidePrism: 0 <= l <= L, |local_u| <= sizeX / 2 and
\* |local_v| <= sizeY / 2
isHitNInsidePrism(hits, n, x0, x1, sizeX, sizeY, theta) ==
    LET axis == Minus(x1, x0)
        d    == Minus(GetPosition(hits, n), x0)
        aa   == Mag2(axis)
        ad   == Dot(axis, d)
    IN  /\ aa > 0
        /\ 0 <= ad
        /\ ad <= aa
        /\ 2 * Abs(LocalU(d, theta)) <= sizeX
        /\ 2 * Abs(LocalV(d, theta)) <= sizeY

HitsInsideCylinder(hits, x0, x1, radius) ==
    {n \in 1..Len(hits) : isHitNInsideCylinder(hits, n, x0, x1, radius)}

HitsInsidePrism(hits, x0, x1, sizeX, sizeY, theta) ==
    {n \in 1..Len(hits) : isHitNInsidePrism(hits, n, x0, x1, sizeX, sizeY, theta)}

\* TRestHits::GetNumberOfHitsInsideCylinder / Prism
TRestHits_GetNumberOfHitsInsideCylinder(hits, x0, x1, radius) ==
    Cardinality(HitsInsideCylinder(hits, x0, x1, radius))

TRestHits_GetNumberOfHitsInsidePrism(hits, x0, x1, sizeX, sizeY, theta) ==
    Cardinality(HitsInsidePrism(hits, x0, x1, sizeX, sizeY, theta))

RECURSIVE SumOver(_, _, _)
SumOver(hits, S, field) ==
    IF S = {} THEN 0
    ELSE LET n == CHOOSE m \in S : TRUE
         IN  hits[n][field] + SumOver(hits, S \ {n}, field)

\* TRestHits::GetEnergyInCylinder / Prism: the energy summed over the contained hits
TRestHits_GetEnergyInCylinder(hits, x0, x1, radius) ==
    SumOver(hits, HitsInsideCylinder(hits, x0, x1, radius), "en")

TRestHits_GetEnergyInPrism(hits, x0, x1, sizeX, sizeY, theta) ==
    SumOver(hits, HitsInsidePrism(hits, x0, x1, sizeX, sizeY, theta), "en")

\* the mean of x, y, z over the hits of S, in millimetres; 0/0 in each
\* coordinate when S is empty
MeanPosition(hits, S) ==
    LET k == Cardinality(S)
    IN  <<Ratio(SumOver(hits, S, "x"), 2 * k),
          Ratio(SumOver(hits, S, "y"), 2 * k),
          Ratio(SumOver(hits, S, "z"), 2 * k)>>

TRestHits_GetMeanPositionInCylinder(hits, x0, x1, radius) ==
    MeanPosition(hits, HitsInsideCylinder(hits, x0, x1, radius))

TRestHits_GetMeanPositionInPrism(hits, x0, x1, sizeX, sizeY, theta) ==
    MeanPosition(hits, HitsInsidePrism(hits, x0, x1, sizeX, sizeY, theta))

\* ------------------------------------------------- TRestHitsEvent queries
anyHitInsideCylinder(hits, x0, x1, radius) ==
    TRestHits_GetNumberOfHitsInsideCylinder(hits, x0, x1, radius) > 0

\* variant of allHitsInsideCylinder: an event without hits has not all hits inside
allHitsInsideCylinder_NonEmpty(hits, x0, x1, radius) ==
    /\ GetNumberOfHits(hits) > 0
    /\ TRestHits_GetNumberOfHitsInsideCylinder(hits, x0, x1, radius) = GetNumberOfHits(hits)

allHitsInsideCylinder(hits, x0, x1, radius) ==
    TRestHits_GetNumberOfHitsInsideCylinder(hits, x0, x1, radius) = GetNumberOfHits(hits)

GetEnergyInCylinder(hits, x0, x1, radius) ==
    TRestHits_GetEnergyInCylinder(hits, x0, x1, radius)

GetNumberOfHitsInsideCylinder(hits, x0, x1, radius) ==
    TRestHits_GetNumberOfHitsInsideCylinder(hits, x0, x1, radius)

GetMeanPositionInCylinder(hits, x0, x1, radius) ==
    TRestHits_GetMeanPositionInCylinder(hits, x0, x1, radius)

\* variant of anyHitInsidePrism: the count compared with 1 instead of 0
anyHitInsidePrism_MoreThanOne(hits, x0, x1, sizeX, sizeY, theta) ==
    TRestHits_GetNumberOfHitsInsidePrism(hits, x0, x1, sizeX, sizeY, theta) > 1

anyHitInsidePrism(hits, x0, x1, sizeX, sizeY, theta) ==
    TRestHits_GetNumberOfHitsInsidePrism(hits, x0, x1, sizeX, sizeY, theta) > 0

allHitsInsidePrism(hits, x0, x1, sizeX, sizeY, theta) ==
    TRestHits_GetNumberOfHitsInsidePrism(hits, x0, x1, sizeX, sizeY, theta)
        = GetNumberOfHits(hits)

GetEnergyInPrism(hits, x0, x1, sizeX, sizeY, theta) ==
    TRestHits_GetEnergyInPrism(hits, x0, x1, sizeX, sizeY, theta)

GetNumberOfHitsInsidePrism(hits, x0, x1, sizeX, sizeY, theta) ==
    TRestHits_GetNumberOfHitsInsidePrism(hits, x0, x1, sizeX, sizeY, theta)

GetMeanPositionInPrism(hits, x0, x1, sizeX, sizeY, theta) ==
    TRestHits_GetMeanPositionInPrism(hits, x0, x1, sizeX, sizeY, theta)

\* d2 and hitDistance of the cylinder wall query are squared lengths: rationals
\* <<n, d>> in mm^2, d > 0
RatLess(a, b) == a[1] * b[2] < b[1] * a[2]

\* variant of CylinderWallD2: the l * l term left out
CylinderWallD2_NoAxial(axis, d, radius) ==
    <<radius * radius * Mag2(axis) - Mag2(d) * Mag2(axis), 4 * Mag2(axis)>>

\* rad2 - (P - x0).Mag2() + l * l, with l * l = (a.d)^2 / (a.a), in mm^2
CylinderWallD2(axis, d, radius) ==
    <<radius * radius * Mag2(axis) - Mag2(d) * Mag2(axis) + Dot(axis, d) * Dot(axis, d),
      4 * Mag2(axis)>>

\* variant of CylinderWallLoop: the loop ends at the first hit inside
CylinderWallLoop_FirstOnly(hits, x0, x1, radius, n, acc) ==
    IF \E m \in n..GetNumberOfHits(hits) : isHitNInsideCylinder(hits, m, x0, x1, radius)
    THEN LET m  == CHOOSE k \in n..GetNumberOfHits(hits) :
                       /\ isHitNInsideCylinder(hits, k, x0, x1, radius)
                       /\ \A j \in n..(k - 1) : ~isHitNInsideCylinder(hits, j, x0, x1, radius)
             d2 == CylinderWallD2(Minus(x1, x0), Minus(GetPosition(hits, m), x0), radius)
         IN  [hitDistance |-> IF RatLess(d2, acc.hitDistance) THEN d2 ELSE acc.hitDistance,
              nhits |-> acc.nhits + 1]
    ELSE acc

\* the loop of GetClosestHitInsideDistanceToCylinderWall from hit n on
RECURSIVE CylinderWallLoop(_, _, _, _, _, _)
CylinderWallLoop(hits, x0, x1, radius, n, acc) ==
    IF n > GetNumberOfHits(hits) THEN acc
    ELSE IF isHitNInsideCylinder(hits, n, x0, x1, radius)
         THEN LET d2 == CylinderWallD2(Minus(x1, x0), Minus(GetPosition(hits, n), x0), radius)
              IN  CylinderWallLoop(hits, x0, x1, radius, n + 1,
                      [hitDistance |-> IF RatLess(d2, acc.hitDistance)
                                       THEN d2 ELSE acc.hitDistance,
                       nhits |-> acc.nhits + 1])
         ELSE CylinderWallLoop(hits, x0, x1, radius, n + 1, acc)

\* variant of GetClosestHitInsideDistanceToCylinderWall: the squared distance
\* is returned, TMath::Sqrt left out
GetClosestHitInsideDistanceToCylinderWall_NoSqrt(hits, x0, x1, radius) ==
    LET end == CylinderWallLoop(hits, x0, x1, radius, 1,
                   [hitDistance |-> <<radius * radius, 4>>, nhits |-> 0])
    IN  IF end.nhits = 0 THEN MinusOne
        ELSE Ratio(end.hitDistance[1], end.hitDistance[2])

GetClosestHitInsideDistanceToCylinderWall(hits, x0, x1, radius) ==
    LET end == CylinderWallLoop(hits, x0, x1, radius, 1,
                   [hitDistance |-> <<radius * radius, 4>>, nhits |-> 0])
    IN  IF end.nhits = 0 THEN MinusOne
        ELSE Sqrt(end.hitDistance[1], end.hitDistance[2])

\* variant of Closer: hitDistance is overwritten without the comparison
Closer_LastWins(d, acc) == [hitDistance |-> d, nhits |-> acc.nhits + 1]

\* one pass of the loop body shared by the Top and Bottom queries: d is the
\* distance of hit n, acc the running hitDistance and nhits
Closer(d, acc) ==
    [hitDistance |-> IF Less(d, acc.hitDistance) THEN d ELSE acc.hitDistance,
     nhits |-> acc.nhits + 1]

RECURSIVE CylinderTopLoop(_, _, _, _, _, _)
CylinderTopLoop(hits, x0, x1, radius, n, acc) ==
    IF n > GetNumberOfHits(hits) THEN acc
    ELSE IF isHitNInsideCylinder(hits, n, x0, x1, radius)
         THEN CylinderTopLoop(hits, x0, x1, radius, n + 1,
                  Closer(LengthMinusAxisCoord(Minus(x1, x0),
                                              Minus(GetPosition(hits, n), x0)), acc))
         ELSE CylinderTopLoop(hits, x0, x1, radius, n + 1, acc)

\* variant of GetClosestHitInsideDistanceToCylinderTop: the nhits == 0 test
\* left out
GetClosestHitInsideDistanceToCylinderTop_NoSentinel(hits, x0, x1, radius) ==
    CylinderTopLoop(hits, x0, x1, radius, 1,
        [hitDistance |-> Mag(Minus(x1, x0)), nhits |-> 0]).hitDistance

GetClosestHitInsideDistanceToCylinderTop(hits, x0, x1, radius) ==
    LET end == CylinderTopLoop(hits, x0, x1, radius, 1,
                   [hitDistance |-> Mag(Minus(x1, x0)), nhits |-> 0])
    IN  IF end.nhits = 0 THEN MinusOne ELSE end.hitDistance

\* variant of CylinderBottomLoop: the loop body of the Top query, copied
\* without changing cylLength - l into l
CylinderBottomLoop_AsTop(hits, x0, x1, radius, n, acc) ==
    CylinderTopLoop(hits, x0, x1, radius, n, acc)

RECURSIVE CylinderBottomLoop(_, _, _, _, _, _)
CylinderBottomLoop(hits, x0, x1, radius, n, acc) ==
    IF n > GetNumberOfHits(hits) THEN acc
    ELSE IF isHitNInsideCylinder(hits, n, x0, x1, radius)
         THEN CylinderBottomLoop(hits, x0, x1, radius, n + 1,
                  Closer(AxisCoord(Minus(x1, x0), Minus(GetPosition(hits, n), x0)), acc))
         ELSE CylinderBottomLoop(hits, x0, x1, radius, n + 1, acc)

GetClosestHitInsideDistanceToCylinderBottom(hits, x0, x1, radius) ==
    LET end == CylinderBottomLoop(hits, x0, x1, radius, 1,
                   [hitDistance |-> Mag(Minus(x1, x0)), nhits |-> 0])
    IN  IF end.nhits = 0 THEN MinusOne ELSE end.hitDistance

\* variant of PrismWallD: dY computed with sizeX
PrismWallD_SizeXTwice(d, sizeX, sizeY) ==
    min(Ratio(sizeX - 2 * Abs(d[1]), 4), Ratio(sizeX - 2 * Abs(d[2]), 4))

\* min(dX, dY) of the prism wall query for the displacement d = P - x0:
\* dX = sizeX / 2 - |d.X()|, dY = sizeY / 2 - |d.Y()|, in millimetres
PrismWallD(d, sizeX, sizeY) ==
    min(Ratio(sizeX - 2 * Abs(d[1]), 4), Ratio(sizeY - 2 * Abs(d[2]), 4))

RECURSIVE PrismWallLoop(_, _, _, _, _, _, _, _)
PrismWallLoop(hits, x0, x1, sizeX, sizeY, theta, n, acc) ==
    IF n > GetNumberOfHits(hits) THEN acc
    ELSE IF isHitNInsidePrism(hits, n, x0, x1, sizeX, sizeY, theta)
         THEN PrismWallLoop(hits, x0, x1, sizeX, sizeY, theta, n + 1,
                  Closer(PrismWallD(Minus(GetPosition(hits, n), x0), sizeX, sizeY), acc))
         ELSE PrismWallLoop(hits, x0, x1, sizeX, sizeY, theta, n + 1, acc)

GetClosestHitInsideDistanceToPrismWall(hits, x0, x1, sizeX, sizeY, theta) ==
    LET end == PrismWallLoop(hits, x0, x1, sizeX, sizeY, theta, 1,
                   [hitDistance |-> max(Ratio(sizeX, 4), Ratio(sizeY, 4)), nhits |-> 0])
    IN  IF end.nhits = 0 THEN MinusOne ELSE end.hitDistance

RECURSIVE PrismTopLoop(_, _, _, _, _, _, _, _)
PrismTopLoop(hits, x0, x1, sizeX, sizeY, theta, n, acc) ==
    IF n > GetNumberOfHits(hits) THEN acc
    ELSE IF isHitNInsidePrism(hits, n, x0, x1, sizeX, sizeY, theta)
         THEN PrismTopLoop(hits, x0, x1, sizeX, sizeY, theta, n + 1,
                  Closer(LengthMinusAxisCoord(Minus(x1, x0),
                                              Minus(GetPosition(hits, n), x0)), acc))
         ELSE PrismTopLoop(hits, x0, x1, sizeX, sizeY, theta, n + 1, acc)

GetClosestHitInsideDistanceToPrismTop(hits, x0, x1, sizeX, sizeY, theta) ==
    LET end == PrismTopLoop(hits, x0, x1, sizeX, sizeY, theta, 1,
                   [hitDistance |-> Mag(Minus(x1, x0)), nhits |-> 0])
    IN  IF end.nhits = 0 THEN MinusOne ELSE end.hitDistance

RECURSIVE PrismBottomLoop(_, _, _, _, _, _, _, _)
PrismBottomLoop(hits, x0, x1, sizeX, sizeY, theta, n, acc) ==
    IF n > GetNumberOfHits(hits) THEN acc
    ELSE IF isHitNInsidePrism(hits, n, x0, x1, sizeX, sizeY, theta)
         THEN PrismBottomLoop(hits, x0, x1, sizeX, sizeY, theta, n + 1,
                  Closer(AxisCoord(Minus(x1, x0), Minus(GetPosition(hits, n), x0)), acc))
         ELSE PrismBottomLoop(hits, x0, x1, sizeX, sizeY, theta, n + 1, acc)

GetClosestHitInsideDistanceToPrismBottom(hits, x0, x1, sizeX, sizeY, theta) ==
    LET end == PrismBottomLoop(hits, x0, x1, sizeX, sizeY, theta, 1,
                   [hitDistance |-> Mag(Minus(x1, x0)), nhits |-> 0])
    IN  IF end.nhits = 0 THEN MinusOne ELSE end.hitDistance

\* ------------------------------------------------------------------ inputs
Hit(x, y, z, en, t, type) == [x |-> x, y |-> y, z |-> z, en |-> en, t |-> t, type |-> type]

\* the hits AddHit is called with (coordinates in half millimetres)
HitInputs ==
    { Hit(1, 1, 4, 2, 0, XYZ), Hit(3, 0, 4, 1, 1, XZ),
      Hit(4, 0, 4, 1, 0, XYZ), Hit(0, 0, 6, 3, 2, YZ) }

Cylinder(x0, x1, radius) == [x0 |-> x0, x1 |-> x1, radius |-> radius]

Prism(x0, x1, sizeX, sizeY, theta) ==
    [x0 |-> x0, x1 |-> x1, sizeX |-> sizeX, sizeY |-> sizeY, theta |-> theta]

\* the cylinders queried: along z (both ways), oblique, with x0 = x1, and of
\* radius 0
Cylinders ==
    { Cylinder(<<0, 0, 0>>, <<0, 0, 8>>, 2), Cylinder(<<0, 0, 8>>, <<0, 0, 0>>, 4),
      Cylinder(<<0, 0, 0>>, <<4, 0, 4>>, 2), Cylinder(<<0, 0, 0>>, <<0, 0, 0>>, 2),
      Cylinder(<<0, 0, 0>>, <<0, 0, 8>>, 0) }

\* the prisms queried have their axis along z (either way, or of length 0)
Prisms ==
    { Prism(<<0, 0, 0>>, <<0, 0, 8>>, 4, 4, 0), Prism(<<0, 0, 0>>, <<0, 0, 8>>, 4, 12, 1),
      Prism(<<0, 0, 0>>, <<0, 0, 8>>, 8, 4, 0), Prism(<<0, 0, 8>>, <<0, 0, 0>>, 8, 2, 2),
      Prism(<<0, 0, 0>>, <<0, 0, 0>>, 4, 4, 0) }

\* the comparators Sort is called with: 0 (the default) and two custom ones
Comparators == {"default", "energy", "x"}

\* comparecondition(hit1, hit2)
Compare(cmp, hit1, hit2) ==
    CASE cmp = "default" -> hit1.z < hit2.z
      [] cmp = "energy"  -> hit1.en > hit2.en
      [] OTHER           -> hit1.x < hit2.x

NLoops == -1..MaxNLoop

\* ------------------------------------------------------------------- state
\* a TRestHits* member: NULL, or a buffer holding hits
NULL == [alloc |-> FALSE, hits |-> <<>>]

NewTRestHits == [alloc |-> TRUE, hits |-> <<>>]

Void == "void"

NoArgs == "none"

Called(op, args) == [op |-> op, args |-> args]

Init ==
    /\ fHits = <<>>
    /\ fXZHits = NULL
    /\ fYZHits = NULL
    /\ fXYZHits = NULL
    /\ fBounds = [fMinX |-> -10, fMaxX |-> 10, fMinY |-> -10, fMaxY |-> 10,
                  fMinZ |-> -10, fMaxZ |-> 10]
    /\ fault = FALSE
    /\ call = Called("TRestHitsEvent", NoArgs)
    /\ ret = Void

\* TRestHits::AddHit: the hit is appended
AddHit(h) ==
    /\ ~fault
    /\ Len(fHits) < MaxHits
    /\ fHits' = Append(fHits, h)
    /\ call' = Called("AddHit", h)
    /\ ret' = Void
    /\ UNCHANGED <<fXZHits, fYZHits, fXYZHits, fBounds, fault>>

\* variant of Initialize: fHits.RemoveHits() left out
Initialize_KeepHits ==
    /\ ~fault
    /\ fXZHits' = NewTRestHits
    /\ fYZHits' = NewTRestHits
    /\ fXYZHits' = NewTRestHits
    /\ fBounds' = [fMinX |-> 0, fMaxX |-> 0, fMinY |-> 0, fMaxY |-> 0,
                   fMinZ |-> 0, fMaxZ |-> 0]
    /\ call' = Called("Initialize", NoArgs)
    /\ ret' = Void
    /\ UNCHANGED <<fHits, fault>>

\* variant of Initialize: the buffers are deleted and not made anew
Initialize_NoNew ==
    /\ ~fault
    /\ fHits' = <<>>
    /\ fXZHits' = NULL
    /\ fYZHits' = NULL
    /\ fXYZHits' = NULL
    /\ fBounds' = [fMinX |-> 0, fMaxX |-> 0, fMinY |-> 0, fMaxY |-> 0,
                   fMinZ |-> 0, fMaxZ |-> 0]
    /\ call' = Called("Initialize", NoArgs)
    /\ ret' = Void
    /\ UNCHANGED fault

Initialize ==
    /\ ~fault
    /\ fHits' = <<>>
    /\ fXZHits' = NewTRestHits
    /\ fYZHits' = NewTRestHits
    /\ fXYZHits' = NewTRestHits
    /\ fBounds' = [fMinX |-> 0, fMaxX |-> 0, fMinY |-> 0, fMaxY |-> 0,
                   fMinZ |-> 0, fMaxZ |-> 0]
    /\ call' = Called("Initialize", NoArgs)
    /\ ret' = Void
    /\ UNCHANGED fault

IndexPermutations(n) == {f \in [1..n -> 1..n] : \A i, j \in 1..n : f[i] = f[j] => i = j}

Reordered(hits, f) == [i \in 1..Len(hits) |-> hits[f[i]]]

\* what std::sort can leave: any order of the same hits in which no later hit
\* compares less than an earlier one (std::sort is not stable)
SortOutcomes(hits, cmp) ==
    {s \in {Reordered(hits, f) : f \in IndexPermutations(Len(hits))} :
        \A i, j \in 1..Len(s) : i < j => ~Compare(cmp, s[j], s[i])}

Sort(cmp) ==
    /\ ~fault
    /\ fHits' \in SortOutcomes(fHits, cmp)
    /\ call' = Called("Sort", cmp)
    /\ ret' = Void
    /\ UNCHANGED <<fXZHits, fYZHits, fXYZHits, fBounds, fault>>

\* TRestHits::SwapHits, on the 0-based indices hit1 and hit2
SwapHits(hits, hit1, hit2) ==
    [i \in 1..Len(hits) |-> IF i = hit1 + 1 THEN hits[hit2 + 1]
                            ELSE IF i = hit2 + 1 THEN hits[hit1 + 1]
                            ELSE hits[i]]

\* (Int_t)(nHits * gRandom->Uniform(0, 1)): Uniform(0, 1) lies strictly
\* between 0 and 1
RandomIndices(nHits) == 0..(nHits - 1)

\* variant of ShuffleLoop: the loop runs while n <= NLoop, once more
RECURSIVE ShuffleLoop_OneMore(_, _)
ShuffleLoop_OneMore(hits, n) ==
    IF n < 0 THEN {hits}
    ELSE UNION {ShuffleLoop_OneMore(SwapHits(hits, hit1, hit2), n - 1) :
                    hit1 \in RandomIndices(Len(hits)), hit2 \in RandomIndices(Len(hits))}

\* the hit lists the loop of Shuffle can end with, n iterations to go
RECURSIVE ShuffleLoop(_, _)
ShuffleLoop(hits, n) ==
    IF n <= 0 THEN {hits}
    ELSE UNION {ShuffleLoop(SwapHits(hits, hit1, hit2), n - 1) :
                    hit1 \in RandomIndices(Len(hits)), hit2 \in RandomIndices(Len(hits))}

Shuffle(NLoop) ==
    /\ ~fault
    /\ fHits' \in (IF GetNumberOfHits(fHits) >= 2 THEN ShuffleLoop(fHits, NLoop) ELSE {fHits})
    /\ call' = Called("Shuffle", NLoop)
    /\ ret' = Void
    /\ UNCHANGED <<fXZHits, fYZHits, fXYZHits, fBounds, fault>>

\* variant of HitsOfType: a hit of type XYZ passes every projection test
HitsOfType_Compatible(hits, type) ==
    LET sel == SelectSeq(hits, LAMBDA h : h.type = type \/ h.type = XYZ)
    IN  [i \in 1..Len(sel) |-> Hit(sel[i].x, sel[i].y, sel[i].z, sel[i].en, sel[i].t, type)]

\* the hits of the event whose type is `type`, in event order, each added
\* with its x, y, z, energy and time and the type `type`
HitsOfType(hits, type) ==
    LET sel == SelectSeq(hits, LAMBDA h : h.type = type)
    IN  [i \in 1..Len(sel) |-> Hit(sel[i].x, sel[i].y, sel[i].z, sel[i].en, sel[i].t, type)]

\* fXZHits->RemoveHits() on a NULL fXZHits is undefined behaviour: the call
\* faults and the program ends
GetXZHits ==
    /\ ~fault
    /\ IF fXZHits.alloc
       THEN /\ fXZHits' = [alloc |-> TRUE, hits |-> HitsOfType(fHits, XZ)]
            /\ ret' = fXZHits'.hits
            /\ UNCHANGED fault
       ELSE /\ fault' = TRUE
            /\ ret' = Void
            /\ UNCHANGED fXZHits
    /\ call' = Called("GetXZHits", NoArgs)
    /\ UNCHANGED <<fHits, fYZHits, fXYZHits, fBounds>>

GetYZHits ==
    /\ ~fault
    /\ IF fYZHits.alloc
       THEN /\ fYZHits' = [alloc |-> TRUE, hits |-> HitsOfType(fHits, YZ)]
            /\ ret' = fYZHits'.hits
            /\ UNCHANGED fault
       ELSE /\ fault' = TRUE
            /\ ret' = Void
            /\ UNCHANGED fYZHits
    /\ call' = Called("GetYZHits", NoArgs)
    /\ UNCHANGED <<fHits, fXZHits, fXYZHits, fBounds>>

GetXYZHits ==
    /\ ~fault
    /\ IF fXYZHits.alloc
       THEN /\ fXYZHits' = [alloc |-> TRUE, hits |-> HitsOfType(fHits, XYZ)]
            /\ ret' = fXYZHits'.hits
            /\ UNCHANGED fault
       ELSE /\ fault' = TRUE
            /\ ret' = Void
            /\ UNCHANGED fXYZHits
    /\ call' = Called("GetXYZHits", NoArgs)
    /\ UNCHANGED <<fHits, fXZHits, fYZHits, fBounds>>

\* variant of Query: the query drops the hits it has visited
Query_Consuming(op, args, value) ==
    /\ ~fault
    /\ call' = Called(op, args)
    /\ ret' = value
    /\ fHits' = <<>>
    /\ UNCHANGED <<fXZHits, fYZHits, fXYZHits, fBounds, fault>>

\* a volume query: it returns `value` and assigns no member of the event
Query(op, args, value) ==
    /\ ~fault
    /\ call' = Called(op, args)
    /\ ret' = value
    /\ UNCHANGED <<fHits, fXZHits, fYZHits, fXYZHits, fBounds, fault>>

Call_anyHitInsideCylinder ==
    \E c \in Cylinders :
        Query("anyHitInsideCylinder", c, anyHitInsideCylinder(fHits, c.x0, c.x1, c.radius))

Call_allHitsInsideCylinder ==
    \E c \in Cylinders :
        Query("allHitsInsideCylinder", c, allHitsInsideCylinder(fHits, c.x0, c.x1, c.radius))

Call_GetEnergyInCylinder ==
    \E c \in Cylinders :
        Query("GetEnergyInCylinder", c, GetEnergyInCylinder(fHits, c.x0, c.x1, c.radius))

Call_GetNumberOfHitsInsideCylinder ==
    \E c \in Cylinders :
        Query("GetNumberOfHitsInsideCylinder", c, GetNumberOfHitsInsideCylinder(fHits, c.x0, c.x1, c.radius))

Call_GetMeanPositionInCylinder ==
    \E c \in Cylinders :
        Query("GetMeanPositionInCylinder", c, GetMeanPositionInCylinder(fHits, c.x0, c.x1, c.radius))

Call_GetClosestHitInsideDistanceToCylinderWall ==
    \E c \in Cylinders :
        Query("GetClosestHitInsideDistanceToCylinderWall", c, GetClosestHitInsideDistanceToCylinderWall(fHits, c.x0, c.x1, c.radius))

Call_GetClosestHitInsideDistanceToCylinderTop ==
    \E c \in Cylinders :
        Query("GetClosestHitInsideDistanceToCylinderTop", c, GetClosestHitInsideDistanceToCylinderTop(fHits, c.x0, c.x1, c.radius))

Call_GetClosestHitInsideDistanceToCylinderBottom ==
    \E c \in Cylinders :
        Query("GetClosestHitInsideDistanceToCylinderBottom", c, GetClosestHitInsideDistanceToCylinderBottom(fHits, c.x0, c.x1, c.radius))

Call_anyHitInsidePrism ==
    \E c \in Prisms :
        Query("anyHitInsidePrism", c,
              anyHitInsidePrism(fHits, c.x0, c.x1, c.sizeX, c.sizeY, c.theta))

Call_allHitsInsidePrism ==
    \E c \in Prisms :
        Query("allHitsInsidePrism", c,
              allHitsInsidePrism(fHits, c.x0, c.x1, c.sizeX, c.sizeY, c.theta))

Call_GetEnergyInPrism ==
    \E c \in Prisms :
        Query("GetEnergyInPrism", c,
              GetEnergyInPrism(fHits, c.x0, c.x1, c.sizeX, c.sizeY, c.theta))

Call_GetNumberOfHitsInsidePrism ==
    \E c \in Prisms :
        Query("GetNumberOfHitsInsidePrism", c,
              GetNumberOfHitsInsidePrism(fHits, c.x0, c.x1, c.sizeX, c.sizeY, c.theta))

Call_GetMeanPositionInPrism ==
    \E c \in Prisms :
        Query("GetMeanPositionInPrism", c,
              GetMeanPositionInPrism(fHits, c.x0, c.x1, c.sizeX, c.sizeY, c.theta))

Call_GetClosestHitInsideDistanceToPrismWall ==
    \E c \in Prisms :
        Query("GetClosestHitInsideDistanceToPrismWall", c,
              GetClosestHitInsideDistanceToPrismWall(fHits, c.x0, c.x1, c.sizeX, c.sizeY, c.theta))

Call_GetClosestHitInsideDistanceToPrismTop ==
    \E c \in Prisms :
        Query("GetClosestHitInsideDistanceToPrismTop", c,
              GetClosestHitInsideDistanceToPrismTop(fHits, c.x0, c.x1, c.sizeX, c.sizeY, c.theta))

Call_GetClosestHitInsideDistanceToPrismBottom ==
    \E c \in Prisms :
        Query("GetClosestHitInsideDistanceToPrismBottom", c,
              GetClosestHitInsideDistanceToPrismBottom(fHits, c.x0, c.x1, c.sizeX, c.sizeY, c.theta))

\* the operations that change the hit list
Mutate ==
    \/ \E h \in HitInputs : AddHit(h)
    \/ Initialize
    \/ \E cmp \in Comparators : Sort(cmp)
    \/ \E NLoop \in NLoops : Shuffle(NLoop)

Projections ==
    \/ GetXZHits
    \/ GetYZHits
    \/ GetXYZHits

VolumeQueries ==
    \/ Call_anyHitInsideCylinder
    \/ Call_allHitsInsideCylinder
    \/ Call_GetEnergyInCylinder
    \/ Call_GetNumberOfHitsInsideCylinder
    \/ Call_GetMeanPositionInCylinder
    \/ Call_GetClosestHitInsideDistanceToCylinderWall
    \/ Call_GetClosestHitInsideDistanceToCylinderTop
    \/ Call_GetClosestHitInsideDistanceToCylinderBottom
    \/ Call_anyHitInsidePrism
    \/ Call_allHitsInsidePrism
    \/ Call_GetEnergyInPrism
    \/ Call_GetNumberOfHitsInsidePrism
    \/ Call_GetMeanPositionInPrism
    \/ Call_GetClosestHitInsideDistanceToPrismWall
    \/ Call_GetClosestHitInsideDistanceToPrismTop
    \/ Call_GetClosestHitInsideDistanceToPrismBottom

Next == Mutate \/ Projections \/ VolumeQueries

Spec == Init /\ [][Next]_vars

\* the event under AddHit, Initialize, Sort, Shuffle and the volume queries
VolumeNext == Mutate \/ VolumeQueries

VolumeSpec == Init /\ [][VolumeNext]_vars

\* the event under AddHit, Initialize, Sort, Shuffle and the projections
ProjectionNext == Mutate \/ Projections

ProjectionSpec == Init /\ [][ProjectionNext]_vars

\* the event under AddHit, Initialize, Sort and Shuffle alone
MutateSpec == Init /\ [][Mutate]_vars

\* ================================================================== claims
CylinderDistanceOps ==
    {"GetClosestHitInsideDistanceToCylinderWall", "GetClosestHitInsideDistanceToCylinderTop",
     "GetClosestHitInsideDistanceToCylinderBottom"}

PrismDistanceOps ==
    {"GetClosestHitInsideDistanceToPrismWall", "GetClosestHitInsideDistanceToPrismTop",
     "GetClosestHitInsideDistanceToPrismBottom"}

CylinderOps ==
    CylinderDistanceOps \cup {"anyHitInsideCylinder", "allHitsInsideCylinder",
                              "GetEnergyInCylinder", "GetNumberOfHitsInsideCylinder",
                              "GetMeanPositionInCylinder"}

PrismOps ==
    PrismDistanceOps \cup {"anyHitInsidePrism", "allHitsInsidePrism", "GetEnergyInPrism",
                           "GetNumberOfHitsInsidePrism", "GetMeanPositionInPrism"}

\* the hits of the event inside the volume of the last call, a volume query
Inside ==
    IF call.op \in CylinderOps
    THEN HitsInsideCylinder(fHits, call.args.x0, call.args.x1, call.args.radius)
    ELSE IF call.op \in PrismOps
    THEN HitsInsidePrism(fHits, call.args.x0, call.args.x1, call.args.sizeX,
                         call.args.sizeY, call.args.theta)
    ELSE {}

\* the least of a non-empty set of finite Double_t
MinOf(S) == CHOOSE v \in S : \A w \in S : Leq(v, w)

\* of the last call's volume and hit n: the axis, P - x0, and in millimetres
\* the axis length L, l = axis.(P - x0) / L and L - l
CallAxis == Minus(call.args.x1, call.args.x0)

CallD(n) == Minus(<<fHits[n].x, fHits[n].y, fHits[n].z>>, call.args.x0)

CallL == Sqrt(Dot(CallAxis, CallAxis), 4)

Calll(n) == Surd(Dot(CallAxis, CallD(n)), 4 * Dot(CallAxis, CallAxis))

CallLMinusl(n) ==
    Surd(Dot(CallAxis, CallAxis) - Dot(CallAxis, CallD(n)), 4 * Dot(CallAxis, CallAxis))

\* C1: each of the six closest-hit distance queries returns -1 if and only if
\* no hit of the event is inside the volume it was called with.
C1_MinusOneIffNoneInside ==
    call.op \in CylinderDistanceOps \cup PrismDistanceOps =>
        (ret = MinusOne <=> Inside = {})

\* C2 as stated: on an event without hits the four any / all queries return false.
C2_AnyAllFalseOnEmpty ==
    (fHits = <<>> /\ call.op \in {"anyHitInsideCylinder", "allHitsInsideCylinder",
                                  "anyHitInsidePrism", "allHitsInsidePrism"})
        => ret = FALSE

\* C2 amended: on an event without hits anyHitInsideCylinder and
\* anyHitInsidePrism return false, allHitsInsideCylinder and allHitsInsidePrism
\* return true.
C2_AnyFalseAllTrueOnEmpty ==
    fHits = <<>> =>
        /\ call.op \in {"anyHitInsideCylinder", "anyHitInsidePrism"} => ret = FALSE
        /\ call.op \in {"allHitsInsideCylinder", "allHitsInsidePrism"} => ret = TRUE

C2_Witness ==
    /\ fHits = <<>>
    /\ call.op = "allHitsInsidePrism"
    /\ call.args.x0 # call.args.x1
    /\ ret = TRUE

\* min(sizeX / 2 - |local_u|, sizeY / 2 - |local_v|) of hit n in the frame of
\* the last call's prism, in millimetres
LocalMargin(n) ==
    LET u == CallD(n)[1] * Cos(call.args.theta) - CallD(n)[2] * Sin(call.args.theta)
        v == CallD(n)[1] * Sin(call.args.theta) + CallD(n)[2] * Cos(call.args.theta)
        mu == Ratio(call.args.sizeX - 2 * Abs(u), 4)
        mv == Ratio(call.args.sizeY - 2 * Abs(v), 4)
    IN  IF Less(mv, mu) THEN mv ELSE mu

\* C3: with a hit inside, GetClosestHitInsideDistanceToPrismWall returns the
\* least, over the hits inside, of min(sizeX/2 - |local_u|, sizeY/2 - |local_v|),
\* local_u and local_v taken in the prism's frame, rotated by theta.
C3_PrismWallInLocalFrame ==
    (call.op = "GetClosestHitInsideDistanceToPrismWall" /\ Inside # {})
        => ret = MinOf({LocalMargin(n) : n \in Inside})

\* sqrt(radius^2 - |P - x0|^2 + l^2) of hit n for the last call's cylinder, in
\* millimetres
RadialMargin(n) ==
    LET aa == Dot(CallAxis, CallAxis)
        ad == Dot(CallAxis, CallD(n))
        dd == Dot(CallD(n), CallD(n))
    IN  Sqrt((call.args.radius * call.args.radius - dd) * aa + ad * ad, 4 * aa)

\* C4: for a cylinder of length L > 0 with a hit inside,
\* GetClosestHitInsideDistanceToCylinderWall returns the least, over the hits
\* inside only, of sqrt(radius^2 - |P - x0|^2 + l^2).
C4_CylinderWallFormula ==
    (/\ call.op = "GetClosestHitInsideDistanceToCylinderWall"
     /\ call.args.x0 # call.args.x1
     /\ Inside # {})
        => ret = MinOf({RadialMargin(n) : n \in Inside})

\* a hit inside and a hit outside, and the result is not the start value radius
C4_Witness ==
    /\ call.op = "GetClosestHitInsideDistanceToCylinderWall"
    /\ call.args.x0 # call.args.x1
    /\ Inside # {}
    /\ Inside # 1..Len(fHits)
    /\ ret # MM(call.args.radius)
    /\ ret = MinOf({RadialMargin(n) : n \in Inside})

\* C5: for a cylinder or a prism of length L > 0 with a hit inside, the Top
\* query returns the least L - l and the Bottom query the least l over the hits
\* inside only.
C5_TopBottomFormula ==
    (call.op \in CylinderDistanceOps \cup PrismDistanceOps /\ Inside # {}) =>
        /\ call.op \in {"GetClosestHitInsideDistanceToCylinderTop",
                        "GetClosestHitInsideDistanceToPrismTop"}
               => ret = MinOf({CallLMinusl(n) : n \in Inside})
        /\ call.op \in {"GetClosestHitInsideDistanceToCylinderBottom",
                        "GetClosestHitInsideDistanceToPrismBottom"}
               => ret = MinOf({Calll(n) : n \in Inside})

\* a Bottom query on a prism, the inside hit farther from x0 than the outside one
C5_Witness ==
    /\ call.op = "GetClosestHitInsideDistanceToPrismBottom"
    /\ Len(fHits) = 2
    /\ Inside = {1}
    /\ Less(Calll(2), Calll(1))
    /\ ret = Calll(1)

AlongZUnrotated ==
    /\ call.args.x0[1] = call.args.x1[1]
    /\ call.args.x0[2] = call.args.x1[2]
    /\ call.args.theta = 0

\* min(sizeX/2 - |x - x0.x|, sizeY/2 - |y - x0.y|) of hit n, in millimetres
GlobalMargin(n) ==
    LET mx == Ratio(call.args.sizeX - 2 * Abs(fHits[n].x - call.args.x0[1]), 4)
        my == Ratio(call.args.sizeY - 2 * Abs(fHits[n].y - call.args.x0[2]), 4)
    IN  IF Less(my, mx) THEN my ELSE mx

\* C7: for a prism along z with theta = 0 a hit is inside iff 0 <= l <= L,
\* |x - x0.x| <= sizeX/2 and |y - x0.y| <= sizeY/2, and with a hit inside
\* GetClosestHitInsideDistanceToPrismWall returns the least, over the hits
\* inside, of min(sizeX/2 - |x - x0.x|, sizeY/2 - |y - x0.y|); the prism
\* (0,0,0)-(0,0,4), sizeX = sizeY = 2 with the hits (0.5,0.5,2) and (1.5,0,2)
\* has one hit inside and wall distance 0.5.
C7_UnrotatedPrismAlongZ ==
    (call.op \in PrismOps /\ AlongZUnrotated) =>
        /\ \A n \in 1..Len(fHits) :
               n \in Inside <=>
                   /\ Leq(Ratio(0, 1), Calll(n))
                   /\ Leq(Calll(n), CallL)
                   /\ Leq(MM(Abs(fHits[n].x - call.args.x0[1])), Ratio(call.args.sizeX, 4))
                   /\ Leq(MM(Abs(fHits[n].y - call.args.x0[2])), Ratio(call.args.sizeY, 4))
        /\ (call.op = "GetClosestHitInsideDistanceToPrismWall" /\ Inside # {})
               => ret = MinOf({GlobalMargin(n) : n \in Inside})
        /\ (/\ call.op = "GetClosestHitInsideDistanceToPrismWall"
            /\ call.args = Prism(<<0, 0, 0>>, <<0, 0, 8>>, 4, 4, 0)
            /\ fHits = <<Hit(1, 1, 4, 2, 0, XYZ), Hit(3, 0, 4, 1, 1, XZ)>>)
               => (Inside = {1} /\ ret = Ratio(1, 2))

C7_Witness ==
    /\ call.op = "GetClosestHitInsideDistanceToPrismWall"
    /\ call.args = Prism(<<0, 0, 0>>, <<0, 0, 8>>, 4, 4, 0)
    /\ fHits = <<Hit(1, 1, 4, 2, 0, XYZ), Hit(3, 0, 4, 1, 1, XZ)>>
    /\ ret = Ratio(1, 2)

\* C8: a step that is a volume query leaves the hit list and every other
\* field of the event as they were, and the same query made again on the
\* unchanged event returns the same value.
C8_QueriesChangeNothing ==
    [][call'.op \in CylinderOps \cup PrismOps =>
          /\ UNCHANGED <<fHits, fXZHits, fYZHits, fXYZHits, fBounds, fault>>
          /\ (call' = call => ret' = ret)]_vars

\* a query made on an initialized event holding two hits
C8_Witness ==
    /\ call.op = "GetMeanPositionInPrism"
    /\ Len(fHits) = 2
    /\ fXZHits.alloc
    /\ Inside = {2}

\* what the any / all queries and the six distance queries return on `hits`
\* for every cylinder and prism queried
AllAnswers(hits) ==
    [c \in Cylinders |->
        <<anyHitInsideCylinder(hits, c.x0, c.x1, c.radius),
          allHitsInsideCylinder(hits, c.x0, c.x1, c.radius),
          GetClosestHitInsideDistanceToCylinderWall(hits, c.x0, c.x1, c.radius),
          GetClosestHitInsideDistanceToCylinderTop(hits, c.x0, c.x1, c.radius),
          GetClosestHitInsideDistanceToCylinderBottom(hits, c.x0, c.x1, c.radius)>>]
    @@
    [c \in Prisms |->
        <<anyHitInsidePrism(hits, c.x0, c.x1, c.sizeX, c.sizeY, c.theta),
          allHitsInsidePrism(hits, c.x0, c.x1, c.sizeX, c.sizeY, c.theta),
          GetClosestHitInsideDistanceToPrismWall(hits, c.x0, c.x1, c.sizeX, c.sizeY, c.theta),
          GetClosestHitInsideDistanceToPrismTop(hits, c.x0, c.x1, c.sizeX, c.sizeY, c.theta),
          GetClosestHitInsideDistanceToPrismBottom(hits, c.x0, c.x1, c.sizeX, c.sizeY,
                                                   c.theta)>>]

\* C9: a step of Sort (default or custom comparator) or of Shuffle (any
\* NLoop, any draws) leaves the any / all answers and the six closest-hit
\* distances of every volume as they were.
C9_ReorderingKeepsAnswers ==
    [][call'.op \in {"Sort", "Shuffle"} => AllAnswers(fHits') = AllAnswers(fHits)]_vars

\* Shuffle has left two different hits in an order Sort would not leave
C9_Witness ==
    /\ call.op = "Shuffle"
    /\ Len(fHits) = 2
    /\ fHits[1].z > fHits[2].z
    /\ \E c \in Cylinders : Cardinality(HitsInsideCylinder(fHits, c.x0, c.x1, c.radius)) = 2

\* C10: on an event with hits, when allHitsInsideCylinder (allHitsInsidePrism)
\* returns true, anyHitInsideCylinder (anyHitInsidePrism) returns true for the
\* same volume.
C10_AllImpliesAny ==
    /\ (call.op = "allHitsInsideCylinder" /\ fHits # <<>> /\ ret = TRUE)
           => anyHitInsideCylinder(fHits, call.args.x0, call.args.x1, call.args.radius)
    /\ (call.op = "allHitsInsidePrism" /\ fHits # <<>> /\ ret = TRUE)
           => anyHitInsidePrism(fHits, call.args.x0, call.args.x1, call.args.sizeX,
                                call.args.sizeY, call.args.theta)

C10_Witness ==
    /\ call.op = "allHitsInsidePrism"
    /\ Len(fHits) = 1
    /\ ret = TRUE

\* C11: for a cylinder with x0 = x1 every hit is outside whatever its position
\* and the radius: anyHitInsideCylinder returns false, the three cylinder
\* distance queries return -1, and the call does not fault.
C11_DegenerateCylinderHoldsNothing ==
    (call.op \in CylinderOps /\ call.args.x0 = call.args.x1) =>
        /\ Inside = {}
        /\ ~fault
        /\ call.op = "anyHitInsideCylinder" => ret = FALSE
        /\ call.op \in CylinderDistanceOps => ret = MinusOne

\* a Top query on the cylinder with x0 = x1, on an event with one hit above
\* x0 and one hit off to the side
C11_Witness ==
    /\ call.op = "GetClosestHitInsideDistanceToCylinderTop"
    /\ call.args.x0 = call.args.x1
    /\ Len(fHits) = 2
    /\ fHits[1].x = 0 /\ fHits[1].y = 0
    /\ fHits[2].x # 0
    /\ ret = MinusOne

\* the hits of `hits` whose type is `type`, in the order of `hits`
RECURSIVE TypeOnly(_, _)
TypeOnly(hits, type) ==
    IF hits = <<>> THEN <<>>
    ELSE IF Head(hits).type = type
         THEN <<Head(hits)>> \o TypeOnly(Tail(hits), type)
         ELSE TypeOnly(Tail(hits), type)

\* C12: once Initialize has made the buffers, a step of GetXZHits (GetYZHits,
\* GetXYZHits) returns exactly the event's current hits of type XZ (YZ, XYZ),
\* in event order with the same x, y, z, energy and time, whatever the buffer
\* held before, and leaves the event's own hit list as it was.
C12_ProjectionIsCurrentHitsOfType ==
    [][/\ (call'.op = "GetXZHits" /\ fXZHits.alloc) =>
              /\ ret' = TypeOnly(fHits, XZ)
              /\ fXZHits'.hits = ret'
              /\ fHits' = fHits
       /\ (call'.op = "GetYZHits" /\ fYZHits.alloc) =>
              /\ ret' = TypeOnly(fHits, YZ)
              /\ fYZHits'.hits = ret'
              /\ fHits' = fHits
       /\ (call'.op = "GetXYZHits" /\ fXYZHits.alloc) =>
              /\ ret' = TypeOnly(fHits, XYZ)
              /\ fXYZHits'.hits = ret'
              /\ fHits' = fHits]_vars

\* GetXZHits on an initialized event holding an XYZ hit and then an XZ hit
\* returns the XZ hit alone
C12_Witness ==
    /\ call.op = "GetXZHits"
    /\ ~fault
    /\ fXZHits.alloc
    /\ Len(fHits) = 2
    /\ fHits[1].type = XYZ
    /\ fHits[2].type = XZ
    /\ ret = <<fHits[2]>>
    /\ fXZHits.hits = ret

\* C13: in the state right after Initialize, whatever came before, the event
\* has no hits, the three projection buffers exist and are empty, and fMinX,
\* fMaxX, fMinY, fMaxY, fMinZ and fMaxZ are 0.
C13_InitializeClears ==
    call.op = "Initialize" =>
        /\ GetNumberOfHits(fHits) = 0
        /\ \A b \in {fXZHits, fYZHits, fXYZHits} : b.alloc /\ b.hits = <<>>
        /\ \A f \in DOMAIN fBounds : fBounds[f] = 0

C13_Witness ==
    /\ call.op = "Initialize"
    /\ fHits = <<>>
    /\ fXZHits = NewTRestHits
    /\ fBounds.fMinX = 0
    /\ fBounds.fMaxZ = 0

\* the three projection buffers are non-null
BuffersExist == fXZHits.alloc /\ fYZHits.alloc /\ fXYZHits.alloc

\* the three projection buffers are null
BuffersNull == ~fXZHits.alloc /\ ~fYZHits.alloc /\ ~fXYZHits.alloc

\* C14: the projection buffers are null after the constructor; a step makes
\* them non-null exactly when it is Initialize or they were non-null before,
\* and leaves all three null otherwise, so they are non-null iff Initialize
\* has been called; GetXZHits, GetYZHits and GetXYZHits dereference a null
\* buffer (and fault) exactly when called with the buffers still null.
C14_BuffersExistIffInitialized ==
    /\ BuffersNull
    /\ [][/\ BuffersExist' <=> (BuffersExist \/ call'.op = "Initialize")
          /\ BuffersNull' <=> ~BuffersExist'
          /\ call'.op \in {"GetXZHits", "GetYZHits", "GetXYZHits"}
                 => (fault' <=> BuffersNull)]_vars

\* a projection called on buffers that exist, on an event holding two hits
C14_Witness ==
    /\ call.op = "GetYZHits"
    /\ BuffersExist
    /\ ~fault
    /\ Len(fHits) = 2

\* how many times the record h occurs in hits
Occurrences(hits, h) == Cardinality({i \in 1..Len(hits) : hits[i] = h})

\* a and b hold the same hit records, each as many times
SameHits(a, b) ==
    /\ Len(a) = Len(b)
    /\ \A i \in 1..Len(a) : Occurrences(a, a[i]) = Occurrences(b, a[i])

TopOps == {"GetClosestHitInsideDistanceToCylinderTop", "GetClosestHitInsideDistanceToPrismTop"}

BottomOps ==
    {"GetClosestHitInsideDistanceToCylinderBottom", "GetClosestHitInsideDistanceToPrismBottom"}

CallTop ==
    IF call.op \in CylinderOps
    THEN GetClosestHitInsideDistanceToCylinderTop(fHits, call.args.x0, call.args.x1,
                                                  call.args.radius)
    ELSE GetClosestHitInsideDistanceToPrismTop(fHits, call.args.x0, call.args.x1,
             call.args.sizeX, call.args.sizeY, call.args.theta)

CallBottom ==
    IF call.op \in CylinderOps
    THEN GetClosestHitInsideDistanceToCylinderBottom(fHits, call.args.x0, call.args.x1,
                                                     call.args.radius)
    ELSE GetClosestHitInsideDistanceToPrismBottom(fHits, call.args.x0, call.args.x1,
             call.args.sizeX, call.args.sizeY, call.args.theta)

\* the integer k with v = k / (2 sqrt(aa)) millimetres, for 0 <= v <= 2 L and
\* aa the squared axis length: l, L - l and L are such multiples (L is k = aa)
AxisUnits(v, aa) == CHOOSE k \in 0..(2 * aa) : k * k * v.q = v.p * 4 * aa

====
